---- MODULE Spec2Model ----
(***************************************************************************)
(* State-machine model of lazyflow/operators/ioOperators/ioOperators.py:   *)
(* the chunk-shape computation of the HDF5 writers, the request tiling of  *)
(* OpH5WriterBigDataset.computeRequestSlicings, the throttled streaming    *)
(* loop of OpH5WriterBigDataset.execute and the slice-by-slice copy of     *)
(* OpStackToH5Writer.execute.                                              *)
(*                                                                         *)
(* The source is Python 2: "/" on two ints is floor division.  Sequences   *)
(* are 1-based here and 0-based in the source.                             *)
(***************************************************************************)
EXTENDS Integers, Sequences, FiniteSets, TLC

VARIABLES
    op,              \* which operator the graph holds: "big" or "stack"
    image,           \* meta of the writer's source slot: shape, axistags, dtypeBytes
    chunkShape,      \* self.chunkShape (big) / local chunkShape (stack)
    d,               \* the dataset at the destination path
    pc,              \* position of the controlling thread
    slicings,        \* execute: the list of slicings not yet requested
    numSlicings,     \* execute: len(slicings) before the first pop
    activeRequests,  \* execute: deque of outstanding requests
    activeSlicings,  \* execute: deque of their slicings
    req,             \* execute: the request popped and being waited for
    s,               \* execute: the slicing popped with it
    counter,         \* execute: counter (big) / z (stack)
    result,          \* result[0] of the current invocation
    progress,        \* values emitted on progressSignal by the current invocation
    submitted,       \* slicings requested by the current invocation, in order
    writes,          \* slicings written by the current invocation, in order
    runs,            \* number of invocations of execute so far
    error,           \* the exception the current invocation raised, "none" if none
    fileNameList,    \* OpStackLoader.fileNameList: the files, in list order
    info,            \* OpStackLoader.info: the ImageInfo of the first file
    globstring,      \* value of OpStackLoader's globstring slot, a string of characters
    dir              \* the image files of the directory the patterns are matched in

vars == <<op, image, chunkShape, d, pc, slicings, numSlicings, activeRequests,
          activeSlicings, req, s, counter, result, progress, submitted, writes,
          runs, error, fileNameList, info, globstring, dir>>

(***************************************************************************)
(* Program constants                                                       *)
(***************************************************************************)
\* "Only allow 10 outstanding requests at a time"
W == 10
\* "Aim for a cube that's roughly 300k in size"
TargetBytes == 300000
\* multipliers = { 'x':5, 'y':5, 'z':5, 't':1, 'c':100 }
SpaceMultiplier == 5
TimeMultiplier == 1
ChannelMultiplier == 100

(***************************************************************************)
(* Bounds of the model                                                     *)
(***************************************************************************)
\* invocations of execute in one behaviour
MaxRuns == 2
\* files matched by the globstring of an OpStackLoader
MaxImages == 3
\* largest extent of an axis in the tilings enumerated for computeRequestSlicings
MaxExtent == 6

(***************************************************************************)
(* Helpers                                                                 *)
(***************************************************************************)
Min(a, b) == IF a < b THEN a ELSE b

\* vigra's AxisTags.index(key): the 0-based position of key, len(axistags)
\* when the key is absent
AxisIndex(axistags, key) ==
    IF \E i \in DOMAIN axistags : axistags[i] = key
    THEN (CHOOSE i \in DOMAIN axistags : axistags[i] = key) - 1
    ELSE Len(axistags)

(***************************************************************************)
(* Chunk shape (OpH5WriterBigDataset.setupOutputs, OpStackToH5Writer)      *)
(***************************************************************************)
\* the largest n with n^3 <= q
ICbrt(q) == CHOOSE n \in 0..67 : n * n * n <= q /\ q < (n + 1) * (n + 1) * (n + 1)

\* cubeDim = int(math.pow(300000 / (numChannels * dtypeBytes), 1/3.0)).
\* The quotient is an int; pow works on IEEE doubles and returns a value just
\* below n for every perfect cube n^3 with n >= 4 (64 -> 3.9999999999999996),
\* which int() truncates to n - 1.
CubeDim(numChannels, dtypeBytes) ==
    LET q == TargetBytes \div (numChannels * dtypeBytes)
        n == ICbrt(q)
    IN  IF n >= 4 /\ n * n * n = q THEN n - 1 ELSE n

\* chunkDims[axisKey]
ChunkDims(key, cubeDim, numChannels) ==
    CASE key = "t" -> 1
      [] key = "c" -> numChannels
      [] OTHER     -> cubeDim

\* chunkShape += ( min( chunkDims[axisKey], dataShape[i] ), )
ComputeChunkShape(dataShape, axistags, numChannels, dtypeBytes) ==
    [i \in 1..Len(dataShape) |->
        Min(ChunkDims(axistags[i], CubeDim(numChannels, dtypeBytes), numChannels),
            dataShape[i])]

\* the bytes of one chunk
ChunkBytes(chunk, dtypeBytes) ==
    LET RECURSIVE Prod(_)
        Prod(q) == IF q = <<>> THEN 1 ELSE Head(q) * Prod(Tail(q))
    IN  Prod(chunk) * dtypeBytes

\* numChannels = dataShape[ axistags.index('c') ]
BigNumChannels(meta) == meta.shape[AxisIndex(meta.axistags, "c") + 1]

(***************************************************************************)
(* OpH5WriterBigDataset.computeRequestSlicings                             *)
(***************************************************************************)
Multipliers(key) ==
    CASE key = "t" -> TimeMultiplier
      [] key = "c" -> ChannelMultiplier
      [] OTHER     -> SpaceMultiplier

\* shift = numpy.minimum(chunkShape * multiplier, shape)
ShiftOneMore(shape, axistags, chunk) ==
    [i \in 1..Len(shape) |-> Min(chunk[i] * Multipliers(axistags[i]) + 1, shape[i])]

Shift(shape, axistags, chunk) ==
    [i \in 1..Len(shape) |-> Min(chunk[i] * Multipliers(axistags[i]), shape[i])]

\* range(0, stop, step) for step > 0
PyRange(stop, step) == [k \in 1..((stop + step - 1) \div step) |-> (k - 1) * step]

\* itertools.product(*ranges): the last range varies fastest
RECURSIVE Product(_)
Product(ranges) ==
    IF ranges = <<>> THEN << <<>> >>
    ELSE LET rest == Product(Tail(ranges))
             h    == Head(ranges)
         IN  [k \in 1..(Len(h) * Len(rest)) |->
                <<h[((k - 1) \div Len(rest)) + 1]>> \o rest[((k - 1) % Len(rest)) + 1]]

\* roiToSlice(start, numpy.minimum(start + shift, shape))
RoiAtUnclipped(indices, shift, shape) ==
    [start |-> indices,
     stop  |-> [i \in 1..Len(shape) |-> indices[i] + shift[i]]]

RoiAt(indices, shift, shape) ==
    [start |-> indices,
     stop  |-> [i \in 1..Len(shape) |-> Min(indices[i] + shift[i], shape[i])]]

ComputeRequestSlicings(shape, axistags, chunk) ==
    LET shift == Shift(shape, axistags, chunk)
        prod  == Product([i \in 1..Len(shape) |-> PyRange(shape[i], shift[i])])
    IN  [k \in 1..Len(prod) |-> RoiAt(prod[k], shift, shape)]

(***************************************************************************)
(* The destination dataset                                                 *)
(***************************************************************************)
\* A dataset is a record: exists, whether anything is stored at the path; stale,
\* whether it holds data no run of this operator wrote; written, the slicings
\* written into it since it was created; axistags, whether attrs['axistags'] is
\* set; uses, the invocations of execute that have written into it so far.

\* no dataset at the destination path
NoDataset ==
    [exists |-> FALSE, stale |-> FALSE, written |-> {}, axistags |-> FALSE, uses |-> 0]

\* a dataset left at the path by an earlier session
OldDataset ==
    [exists |-> TRUE, stale |-> TRUE, written |-> {}, axistags |-> TRUE, uses |-> 0]

\* if datasetName in g.keys(): del g[datasetName]; g.create_dataset(...)
CreateDatasetKeepExisting(old) ==
    IF old.exists THEN old
    ELSE [exists |-> TRUE, stale |-> FALSE, written |-> {}, axistags |-> FALSE,
          uses |-> 0]

CreateDataset(old) ==
    [exists |-> TRUE, stale |-> FALSE, written |-> {}, axistags |-> FALSE, uses |-> 0]

NoSlicing == [start |-> <<>>, stop |-> <<>>]
NoRequest == [roi |-> NoSlicing, ready |-> FALSE]

\* self.inputs["Image"][s]: a new request, its data not yet available
NewRequest(sl) == [roi |-> sl, ready |-> FALSE]

(***************************************************************************)
(* OpH5WriterBigDataset                                                    *)
(***************************************************************************)
\* list.pop(): removes and returns the last item
ListPopFirst(l) == [item |-> l[1], rest |-> SubSeq(l, 2, Len(l))]

ListPop(l) == [item |-> l[Len(l)], rest |-> SubSeq(l, 1, Len(l) - 1)]

\* a deque after popleft(), and the item it returned
PopRight(q) == [item |-> q[Len(q)], rest |-> SubSeq(q, 1, Len(q) - 1)]

PopLeft(q) == [item |-> Head(q), rest |-> Tail(q)]

\* s = slicings.pop(); activeSlicings.append(s);
\* activeRequests.append( self.inputs["Image"][s] )
SubmitSlicingFirst(st) ==
    LET p == ListPop(st.slicings)
    IN  [slicings       |-> p.rest,
         activeSlicings |-> <<p.item>> \o st.activeSlicings,
         activeRequests |-> Append(st.activeRequests, NewRequest(p.item))]

Submit(st) ==
    LET p == ListPop(st.slicings)
    IN  [slicings       |-> p.rest,
         activeSlicings |-> Append(st.activeSlicings, p.item),
         activeRequests |-> Append(st.activeRequests, NewRequest(p.item))]

\* for i in range( min(10, len(slicings)) ): ...
RECURSIVE Activate(_, _)
Activate(n, st) == IF n = 0 THEN st ELSE Activate(n - 1, Submit(st))

\* the number of requests the loop starts with
InitialWindowAll(n) == n

InitialWindow(n) == Min(W, n)

\* self.progressSignal( 100*counter/numSlicings )
ProgressOfUndivided(cnt, total) == 100 * cnt

ProgressOf(cnt, total) == (100 * cnt) \div total

\* if len(slicings) > 0: create a new active request
RefillNever(st) == st

Refill(st) == IF Len(st.slicings) > 0 THEN Submit(st) ELSE st

BigSetupOutputs ==
    /\ op = "big"
    /\ pc \in {"new", "idle", "done", "failed"}
    /\ chunkShape' = ComputeChunkShape(image.shape, image.axistags,
                                       BigNumChannels(image), image.dtypeBytes)
    /\ d' = CreateDataset(d)
    /\ pc' = IF pc = "new" THEN "idle" ELSE pc
    /\ UNCHANGED <<globstring, dir, op, image, slicings, numSlicings,
                   activeRequests, activeSlicings, req, s, counter, result,
                   progress, submitted, writes, runs, error, fileNameList,
                   info>>

\* execute up to the first evaluation of the loop condition
BigExecuteBegin ==
    /\ op = "big"
    /\ pc \in {"idle", "done", "failed"}
    /\ runs < MaxRuns
    /\ LET all == ComputeRequestSlicings(image.shape, image.axistags, chunkShape)
           st  == Activate(InitialWindow(Len(all)),
                           [slicings |-> all, activeSlicings |-> <<>>,
                            activeRequests |-> <<>>])
       IN  /\ numSlicings' = Len(all)
           /\ slicings' = st.slicings
           /\ activeSlicings' = st.activeSlicings
           /\ activeRequests' = st.activeRequests
           /\ submitted' = st.activeSlicings
    /\ progress' = <<0>>
    /\ counter' = 0
    /\ result' = FALSE
    /\ writes' = <<>>
    /\ error' = "none"
    /\ req' = NoRequest
    /\ s' = NoSlicing
    /\ runs' = runs + 1
    /\ d' = [d EXCEPT !.uses = @ + 1]
    /\ pc' = "loop"
    /\ UNCHANGED <<globstring, dir, op, image, chunkShape, fileNameList, info>>

\* while len(activeRequests) > 0: req = activeRequests.popleft();
\* s = activeSlicings.popleft(); then req.wait() blocks
BigPop ==
    /\ op = "big"
    /\ pc = "loop"
    /\ Len(activeRequests) > 0
    /\ req' = PopLeft(activeRequests).item
    /\ s' = PopLeft(activeSlicings).item
    /\ activeRequests' = PopLeft(activeRequests).rest
    /\ activeSlicings' = PopLeft(activeSlicings).rest
    /\ pc' = "wait"
    /\ UNCHANGED <<globstring, dir, op, image, chunkShape, d, slicings,
                   numSlicings, counter, result, progress, submitted, writes,
                   runs, error, fileNameList, info>>

\* a worker finishes the fetch of some outstanding request
FetchComplete ==
    /\ op = "big"
    /\ pc \in {"loop", "wait"}
    /\ \/ /\ \E i \in DOMAIN activeRequests :
                /\ ~activeRequests[i].ready
                /\ activeRequests' = [activeRequests EXCEPT ![i].ready = TRUE]
          /\ UNCHANGED req
       \/ /\ pc = "wait"
          /\ ~req.ready
          /\ req' = [req EXCEPT !.ready = TRUE]
          /\ UNCHANGED activeRequests
    /\ UNCHANGED <<globstring, dir, op, image, chunkShape, d, pc, slicings,
                   numSlicings, activeSlicings, s, counter, result, progress,
                   submitted, writes, runs, error, fileNameList, info>>

\* data = req.wait(): blocks until the request has finished
AvailableAlways(r) == TRUE

Available(r) == r.ready

\* req.wait() returns the data; the rest of the loop body
BigWaitReturn ==
    /\ op = "big"
    /\ pc = "wait"
    /\ Available(req)
    /\ d' = [d EXCEPT !.written = @ \cup {s}]
    /\ writes' = Append(writes, [src |-> req.roi, dst |-> s])
    /\ LET st == Refill([slicings |-> slicings, activeSlicings |-> activeSlicings,
                         activeRequests |-> activeRequests])
       IN  /\ slicings' = st.slicings
           /\ activeSlicings' = st.activeSlicings
           /\ activeRequests' = st.activeRequests
           /\ submitted' = submitted \o SubSeq(st.activeSlicings,
                                               Len(activeSlicings) + 1,
                                               Len(st.activeSlicings))
    /\ progress' = Append(progress, ProgressOf(counter, numSlicings))
    /\ counter' = counter + 1
    /\ req' = NoRequest
    /\ s' = NoSlicing
    /\ pc' = "loop"
    /\ UNCHANGED <<globstring, dir, op, image, chunkShape, numSlicings, result,
                   runs, error, fileNameList, info>>

\* the exception leaves execute: its locals are gone
AbortSwallowed(kind) ==
    /\ error' = kind
    /\ pc' = "loop"
    /\ req' = NoRequest
    /\ s' = NoSlicing
    /\ UNCHANGED <<globstring, dir, op, image, chunkShape, d, slicings,
                   numSlicings, activeRequests, activeSlicings, counter, result,
                   progress, submitted, writes, runs, fileNameList, info>>

Abort(kind) ==
    /\ error' = kind
    /\ pc' = "failed"
    /\ slicings' = <<>>
    /\ activeRequests' = <<>>
    /\ activeSlicings' = <<>>
    /\ req' = NoRequest
    /\ s' = NoSlicing
    /\ UNCHANGED <<globstring, dir, op, image, chunkShape, d, numSlicings,
                   counter, result, progress, submitted, writes, runs,
                   fileNameList, info>>

\* req.wait() raises the error of the fetch
BigWaitRaise ==
    /\ op = "big"
    /\ pc = "wait"
    /\ Available(req)
    /\ Abort("read")

\* self.d.write_direct(...) / self.d[s] = data raises
BigWriteRaise ==
    /\ op = "big"
    /\ pc = "wait"
    /\ Available(req)
    /\ Abort("write")

\* the loop ends: axistags attribute, result[0] = True, progressSignal(100)
BigFinish ==
    /\ op = "big"
    /\ pc = "loop"
    /\ Len(activeRequests) = 0
    /\ d' = [d EXCEPT !.axistags = TRUE]
    /\ result' = TRUE
    /\ progress' = Append(progress, 100)
    /\ pc' = "done"
    /\ UNCHANGED <<globstring, dir, op, image, chunkShape, slicings,
                   numSlicings, activeRequests, activeSlicings, req, s, counter,
                   submitted, writes, runs, error, fileNameList, info>>

(***************************************************************************)
(* OpStackLoader                                                           *)
(***************************************************************************)
\* the image files a glob can match: per-file shape (x, y, c) and dtype width
FileKinds ==
    { [shape |-> <<4, 3, 1>>, dtypeBytes |-> 1],
      [shape |-> <<4, 3, 3>>, dtypeBytes |-> 1],
      [shape |-> <<5, 3, 1>>, dtypeBytes |-> 2] }

NoFile == [shape |-> <<>>, dtypeBytes |-> 0]

\* oslot.meta.shape = oslot.meta.dtype = oslot.meta.axistags = None
NoMeta == [shape |-> <<>>, axistags |-> <<>>, dtypeBytes |-> 0]

FileLists == UNION {[1..n -> FileKinds] : n \in 0..MaxImages}

\* shape (x, y, len(fileNameList), c), axistags x y z c, dtype of the first file
StackMeta(files) ==
    IF Len(files) # 0
    THEN [shape      |-> <<files[1].shape[1], files[1].shape[2], Len(files),
                           files[1].shape[3]>>,
          axistags   |-> <<"x", "y", "z", "c">>,
          dtypeBytes |-> files[1].dtypeBytes]
    ELSE NoMeta

\* OpStackLoader.setupOutputs, on a change of the globstring
StackSetupOutputs ==
    /\ op = "stack"
    /\ pc \in {"new", "idle", "done", "failed"}
    /\ \E files \in FileLists :
          /\ fileNameList' = files
          /\ info' = IF Len(files) # 0 THEN files[1] ELSE info
          /\ image' = StackMeta(files)
    /\ pc' = IF pc = "new" THEN "idle" ELSE pc
    /\ UNCHANGED <<globstring, dir, op, chunkShape, d, slicings, numSlicings,
                   activeRequests, activeSlicings, req, s, counter, result,
                   progress, submitted, writes, runs, error>>

\* OpStackLoader.execute for one z-slice: the file's shape against self.info
SameShapeUnchecked(file, first) == TRUE

SameShape(file, first) == file.shape = first.shape

(***************************************************************************)
(* OpStackToH5Writer                                                       *)
(***************************************************************************)
\* index_ = axistags.index('c'); numChannels = 1 if index_ >= len(dataShape)
StackNumChannels(meta) ==
    IF AxisIndex(meta.axistags, "c") >= Len(meta.shape)
    THEN 1
    ELSE meta.shape[AxisIndex(meta.axistags, "c") + 1]

\* slicing = [slice(None)] * len(stackTags); slicing[zAxis] = slice(z, z+1)
SliceRoi(meta, z) ==
    LET zAxis == AxisIndex(meta.axistags, "z") + 1
    IN  [start |-> [i \in 1..Len(meta.shape) |-> IF i = zAxis THEN z ELSE 0],
         stop  |-> [i \in 1..Len(meta.shape) |->
                        IF i = zAxis THEN z + 1 ELSE meta.shape[i]]]

\* self.progressSignal( z*100 / numImages )
StackProgressOf(z, numImages) == (z * 100) \div numImages

\* stack.meta.axistags is None: stackTags.index('z') raises
StackExecuteNoStack ==
    /\ op = "stack"
    /\ pc \in {"idle", "done", "failed"}
    /\ runs < MaxRuns
    /\ image = NoMeta
    /\ runs' = runs + 1
    /\ progress' = <<>>
    /\ counter' = 0
    /\ result' = FALSE
    /\ writes' = <<>>
    /\ submitted' = <<>>
    /\ error' = "attribute"
    /\ pc' = "failed"
    /\ UNCHANGED <<globstring, dir, op, image, chunkShape, d, slicings,
                   numSlicings, activeRequests, activeSlicings, req, s,
                   fileNameList, info>>

\* execute up to the first iteration of the copy loop
StackExecuteBegin ==
    /\ op = "stack"
    /\ pc \in {"idle", "done", "failed"}
    /\ runs < MaxRuns
    /\ image # NoMeta
    /\ chunkShape' = ComputeChunkShape(image.shape, image.axistags,
                                       StackNumChannels(image), image.dtypeBytes)
    /\ d' = [CreateDataset(d) EXCEPT !.uses = 1]
    /\ numSlicings' = image.shape[AxisIndex(image.axistags, "z") + 1]
    /\ progress' = <<0>>
    /\ counter' = 0
    /\ result' = FALSE
    /\ writes' = <<>>
    /\ submitted' = <<>>
    /\ error' = "none"
    /\ runs' = runs + 1
    /\ pc' = "copy"
    /\ UNCHANGED <<globstring, dir, op, image, slicings, activeRequests,
                   activeSlicings, req, s, fileNameList, info>>

\* data[tuple(slicing)] = self.opStackLoader.stack[slicing].wait();
\* self.progressSignal( z*100 / numImages )
StackCopySlice ==
    /\ op = "stack"
    /\ pc = "copy"
    /\ counter < numSlicings
    /\ SameShape(fileNameList[counter + 1], info)
    /\ LET sl == SliceRoi(image, counter)
       IN  /\ d' = [d EXCEPT !.written = @ \cup {sl}]
           /\ submitted' = Append(submitted, sl)
           /\ writes' = Append(writes, [src |-> sl, dst |-> sl])
    /\ progress' = Append(progress, StackProgressOf(counter, numSlicings))
    /\ counter' = counter + 1
    /\ UNCHANGED <<globstring, dir, op, image, chunkShape, pc, slicings,
                   numSlicings, activeRequests, activeSlicings, req, s, result,
                   runs, error, fileNameList, info>>

\* raise RuntimeError('not all files have the same shape')
StackReadRaise ==
    /\ op = "stack"
    /\ pc = "copy"
    /\ counter < numSlicings
    /\ ~SameShape(fileNameList[counter + 1], info)
    /\ submitted' = Append(submitted, SliceRoi(image, counter))
    /\ error' = "read"
    /\ pc' = "failed"
    /\ UNCHANGED <<globstring, dir, op, image, chunkShape, d, slicings,
                   numSlicings, activeRequests, activeSlicings, req, s, counter,
                   result, progress, writes, runs, fileNameList, info>>

\* the assignment into the dataset raises
StackWriteRaise ==
    /\ op = "stack"
    /\ pc = "copy"
    /\ counter < numSlicings
    /\ SameShape(fileNameList[counter + 1], info)
    /\ submitted' = Append(submitted, SliceRoi(image, counter))
    /\ error' = "write"
    /\ pc' = "failed"
    /\ UNCHANGED <<globstring, dir, op, image, chunkShape, d, slicings,
                   numSlicings, activeRequests, activeSlicings, req, s, counter,
                   result, progress, writes, runs, fileNameList, info>>

\* result[...] = True; self.progressSignal(100)
StackFinish ==
    /\ op = "stack"
    /\ pc = "copy"
    /\ counter = numSlicings
    /\ result' = TRUE
    /\ progress' = Append(progress, 100)
    /\ pc' = "done"
    /\ UNCHANGED <<globstring, dir, op, image, chunkShape, d, slicings,
                   numSlicings, activeRequests, activeSlicings, req, s, counter,
                   submitted, writes, runs, error, fileNameList, info>>

(***************************************************************************)
(* The sources offered to the writer                                       *)
(***************************************************************************)
ImageMetas ==
    { [shape |-> <<12, 1>>,      axistags |-> <<"t", "c">>,      dtypeBytes |-> 1],
      [shape |-> <<10, 1>>,      axistags |-> <<"t", "c">>,      dtypeBytes |-> 2],
      [shape |-> <<2, 1>>,       axistags |-> <<"t", "c">>,      dtypeBytes |-> 4],
      [shape |-> <<3, 131, 2>>,  axistags |-> <<"t", "x", "c">>, dtypeBytes |-> 8],
      [shape |-> <<67, 40, 3>>,  axistags |-> <<"x", "y", "c">>, dtypeBytes |-> 4] }

Init ==
    /\ \/ op = "big" /\ image \in ImageMetas
       \/ op = "stack" /\ image = NoMeta
    /\ chunkShape = <<>>
    /\ d \in {NoDataset, OldDataset}
    /\ pc = "new"
    /\ slicings = <<>>
    /\ numSlicings = 0
    /\ activeRequests = <<>>
    /\ activeSlicings = <<>>
    /\ req = NoRequest
    /\ s = NoSlicing
    /\ counter = 0
    /\ result = FALSE
    /\ progress = <<>>
    /\ submitted = <<>>
    /\ writes = <<>>
    /\ runs = 0
    /\ error = "none"
    /\ fileNameList = <<>>
    /\ info = NoFile
    /\ globstring = <<>>
    /\ dir = {}

Next ==
    \/ BigSetupOutputs
    \/ BigExecuteBegin
    \/ BigPop
    \/ FetchComplete
    \/ BigWaitReturn
    \/ BigWaitRaise
    \/ BigWriteRaise
    \/ BigFinish
    \/ StackSetupOutputs
    \/ StackExecuteNoStack
    \/ StackExecuteBegin
    \/ StackCopySlice
    \/ StackReadRaise
    \/ StackWriteRaise
    \/ StackFinish

Spec == Init /\ [][Next]_vars

(***************************************************************************)
(* The chunk-shape computation on its own: every source of PlannerMetas    *)
(* is given to the computation of either writer.                           *)
(***************************************************************************)
AxisOrders ==
    { <<"t", "x", "y", "z", "c">>, <<"x", "y", "z", "c">>, <<"x", "y", "c">>,
      <<"c", "x">>, <<"t", "c">>, <<"c">>, <<"x", "y", "z">>, <<"t", "x">> }

\* extents tried for an axis of the given key
ExtentsOf(key) ==
    CASE key = "t" -> {1, 3}
      [] key = "c" -> {1, 3, 4687, 37500, 300000, 300001}
      [] OTHER     -> {1, 25, 70}

DtypeWidths == {1, 2, 4, 8, 16}

ShapesOf(axistags) ==
    {sh \in [1..Len(axistags) -> {1, 3, 25, 70, 4687, 37500, 300000, 300001}] :
        \A i \in 1..Len(axistags) : sh[i] \in ExtentsOf(axistags[i])}

PlannerMetas ==
    UNION { {[shape |-> sh, axistags |-> a, dtypeBytes |-> b] :
                sh \in ShapesOf(a), b \in DtypeWidths} : a \in AxisOrders }

\* the variables the planners leave alone
Unused ==
    /\ d = NoDataset
    /\ numSlicings = 0
    /\ activeRequests = <<>>
    /\ activeSlicings = <<>>
    /\ req = NoRequest
    /\ s = NoSlicing
    /\ counter = 0
    /\ result = FALSE
    /\ progress = <<>>
    /\ submitted = <<>>
    /\ writes = <<>>
    /\ runs = 0
    /\ fileNameList = <<>>
    /\ info = NoFile
    /\ globstring = <<>>
    /\ dir = {}

HasChannel(meta) == AxisIndex(meta.axistags, "c") < Len(meta.shape)

InitChunk ==
    /\ op \in {"big", "stack"}
    /\ image \in PlannerMetas
    /\ chunkShape = <<>>
    /\ slicings = <<>>
    /\ pc = "new"
    /\ error = "none"
    /\ Unused

\* lines 301-332 of OpH5WriterBigDataset.setupOutputs
PlanChunkBig ==
    /\ op = "big"
    /\ pc = "new"
    /\ HasChannel(image)
    /\ chunkShape' = ComputeChunkShape(image.shape, image.axistags,
                                       BigNumChannels(image), image.dtypeBytes)
    /\ pc' = "planned"
    /\ UNCHANGED <<globstring, dir, op, image, d, slicings, numSlicings,
                   activeRequests, activeSlicings, req, s, counter, result,
                   progress, submitted, writes, runs, error, fileNameList,
                   info>>

\* dataShape[ axistags.index('c') ] with no channel axis: IndexError
PlanChunkBigNoChannel ==
    /\ op = "big"
    /\ pc = "new"
    /\ ~HasChannel(image)
    /\ error' = "index"
    /\ pc' = "failed"
    /\ UNCHANGED <<globstring, dir, op, image, chunkShape, d, slicings,
                   numSlicings, activeRequests, activeSlicings, req, s, counter,
                   result, progress, submitted, writes, runs, fileNameList,
                   info>>

\* lines 207-232 of OpStackToH5Writer.execute
PlanChunkStack ==
    /\ op = "stack"
    /\ pc = "new"
    /\ chunkShape' = ComputeChunkShape(image.shape, image.axistags,
                                       StackNumChannels(image), image.dtypeBytes)
    /\ pc' = "planned"
    /\ UNCHANGED <<globstring, dir, op, image, d, slicings, numSlicings,
                   activeRequests, activeSlicings, req, s, counter, result,
                   progress, submitted, writes, runs, error, fileNameList,
                   info>>

NextChunk == PlanChunkBig \/ PlanChunkBigNoChannel \/ PlanChunkStack

SpecChunk == InitChunk /\ [][NextChunk]_vars

(***************************************************************************)
(* computeRequestSlicings on its own: every shape up to MaxExtent, every   *)
(* chunk shape within it.                                                  *)
(***************************************************************************)
SlicingOrders ==
    { <<"x">>, <<"t">>, <<"c">>, <<"t", "x">>, <<"x", "t">>, <<"x", "y">>,
      <<"x", "c">>, <<"c", "x">>, <<"t", "c">>, <<"z", "y">>, <<"y", "t", "x">> }

\* a channel axis is split only beyond 100 chunks
SlicingExtents(key) ==
    IF key = "c" THEN (1..MaxExtent) \cup {101, 201} ELSE 1..MaxExtent

SlicingShapes(axistags) ==
    {sh \in [1..Len(axistags) -> (1..MaxExtent) \cup {101, 201}] :
        \A i \in 1..Len(axistags) : sh[i] \in SlicingExtents(axistags[i])}

ChunksWithin(sh) ==
    {ch \in [1..Len(sh) -> 1..MaxExtent] : \A i \in 1..Len(sh) : ch[i] <= sh[i]}

InitSlicing ==
    /\ op = "big"
    /\ \E a \in SlicingOrders : \E sh \in SlicingShapes(a) :
          /\ image = [shape |-> sh, axistags |-> a, dtypeBytes |-> 1]
          /\ chunkShape \in ChunksWithin(sh)
    /\ slicings = <<>>
    /\ pc = "new"
    /\ error = "none"
    /\ Unused

\* slicings=self.computeRequestSlicings()
PlanSlicing ==
    /\ op = "big"
    /\ pc = "new"
    /\ slicings' = ComputeRequestSlicings(image.shape, image.axistags, chunkShape)
    /\ pc' = "planned"
    /\ UNCHANGED <<globstring, dir, op, image, chunkShape, d, numSlicings,
                   activeRequests, activeSlicings, req, s, counter, result,
                   progress, submitted, writes, runs, error, fileNameList,
                   info>>

NextSlicing == PlanSlicing

SpecSlicing == InitSlicing /\ [][NextSlicing]_vars

(***************************************************************************)
(* OpStackLoader.setupOutputs: expansion of the globstring                 *)
(*                                                                         *)
(* A string is a sequence of one-character strings.  The directory holds   *)
(* plain files only, so a pattern with a path separator matches nothing.   *)
(***************************************************************************)
MaxPatterns == 2

\* ord() of the characters in use
Code(c) ==
    CASE c = "*" -> 42
      [] c = "/" -> 47
      [] c = "a" -> 97
      [] c = "b" -> 98

\* str.__lt__: comparison of two strings, character by character
RECURSIVE StrLess(_, _)
StrLess(a, b) ==
    IF a = <<>> THEN b # <<>>
    ELSE IF b = <<>> THEN FALSE
    ELSE IF Head(a) # Head(b) THEN Code(Head(a)) < Code(Head(b))
    ELSE StrLess(Tail(a), Tail(b))

\* sorted(): insertion of one string into a sorted list, after its equals
RECURSIVE InsertSorted(_, _)
InsertSorted(x, lst) ==
    IF lst = <<>> THEN <<x>>
    ELSE IF StrLess(x, Head(lst)) THEN <<x>> \o lst
    ELSE <<Head(lst)>> \o InsertSorted(x, Tail(lst))

\* sorted(list of strings)
RECURSIVE Sorted(_)
Sorted(lst) ==
    IF lst = <<>> THEN <<>>
    ELSE InsertSorted(lst[Len(lst)], Sorted(SubSeq(lst, 1, Len(lst) - 1)))

\* globStrings.split("//"): cut at every "//", scanning from the left
RECURSIVE SplitFrom(_, _)
SplitFrom(str, cur) ==
    IF str = <<>> THEN <<cur>>
    ELSE IF Len(str) >= 2 /\ str[1] = "/" /\ str[2] = "/"
         THEN <<cur>> \o SplitFrom(SubSeq(str, 3, Len(str)), <<>>)
         ELSE SplitFrom(Tail(str), Append(cur, Head(str)))

Split(str) == SplitFrom(str, <<>>)

\* fnmatch of a file name against a pattern whose only wildcard is "*"
RECURSIVE FnMatch(_, _)
FnMatch(name, pat) ==
    IF pat = <<>> THEN name = <<>>
    ELSE IF Head(pat) = "*"
         THEN FnMatch(name, Tail(pat)) \/ (name # <<>> /\ FnMatch(Tail(name), pat))
         ELSE name # <<>> /\ Head(name) = Head(pat) /\ FnMatch(Tail(name), Tail(pat))

\* glob.glob(globString): the names of the directory that match, in the
\* order the directory listing gives them
RECURSIVE Listing(_)
Listing(names) ==
    IF names = {} THEN <<>>
    ELSE LET n == CHOOSE n \in names : TRUE
         IN  <<n>> \o Listing(names \ {n})

Glob(pat, files) ==
    Listing({f.name : f \in {g \in files : FnMatch(g.name, pat)}})

\* for globString in sorted(...): self.fileNameList += sorted(glob.glob(globString))
RECURSIVE Expand(_, _)
Expand(pats, files) ==
    IF pats = <<>> THEN <<>>
    ELSE Sorted(Glob(Head(pats), files)) \o Expand(Tail(pats), files)

\* self.fileNameList after the loop of setupOutputs
FileNameListUnsorted(str, files) == Expand(Split(str), files)

FileNameListOf(str, files) == Expand(Sorted(Split(str)), files)

\* vigra.impex.ImageInfo(fileName)
ImageInfo(name, files) == CHOOSE f \in files : f.name = name

\* the files a directory may hold; "ba" is not an image vigra can open
DirFiles ==
    { [name |-> <<"a", "b">>, shape |-> <<2, 2, 1>>, dtypeBytes |-> 1, readable |-> TRUE],
      [name |-> <<"b">>,      shape |-> <<3, 2, 1>>, dtypeBytes |-> 2, readable |-> TRUE],
      [name |-> <<"b", "a">>, shape |-> <<2, 2, 1>>, dtypeBytes |-> 1, readable |-> FALSE] }

\* the patterns a globstring is put together from
Patterns ==
    { <<"a", "*">>, <<"b", "*">>, <<"*">>, <<"a", "b">>, <<>> }

RECURSIVE JoinPatterns(_)
JoinPatterns(pats) ==
    IF Len(pats) = 1 THEN pats[1]
    ELSE pats[1] \o <<"/", "/">> \o JoinPatterns(Tail(pats))

GlobStrings ==
    {JoinPatterns(pats) : pats \in UNION {[1..n -> Patterns] : n \in 1..MaxPatterns}}

InitGlob ==
    /\ op = "stack"
    /\ image = NoMeta
    /\ chunkShape = <<>>
    /\ slicings = <<>>
    /\ pc = "new"
    /\ error = "none"
    /\ d = NoDataset
    /\ numSlicings = 0
    /\ activeRequests = <<>>
    /\ activeSlicings = <<>>
    /\ req = NoRequest
    /\ s = NoSlicing
    /\ counter = 0
    /\ result = FALSE
    /\ progress = <<>>
    /\ submitted = <<>>
    /\ writes = <<>>
    /\ runs = 0
    /\ fileNameList = <<>>
    /\ info = NoFile
    /\ globstring = <<>>
    /\ dir \in SUBSET DirFiles

\* setupOutputs on a new value of the globstring, the first file can be opened
\* or the list is empty
GlobSetupOutputs ==
    /\ op = "stack"
    /\ \E str \in GlobStrings :
          LET lst == FileNameListOf(str, dir)
              files == [k \in 1..Len(lst) |-> ImageInfo(lst[k], dir)]
          IN  /\ Len(lst) # 0 => files[1].readable
              /\ globstring' = str
              /\ fileNameList' = lst
              /\ info' = IF Len(lst) # 0 THEN files[1] ELSE info
              /\ image' = StackMeta(files)
    /\ error' = "none"
    /\ pc' = "idle"
    /\ UNCHANGED <<dir, op, chunkShape, d, slicings, numSlicings, activeRequests,
                   activeSlicings, req, s, counter, result, progress, submitted,
                   writes, runs>>

\* setupOutputs on a new value of the globstring, ImageInfo of the first
\* file raises: raise OpStackLoader.FileOpenError(self.fileNameList[0])
GlobSetupRaise ==
    /\ op = "stack"
    /\ \E str \in GlobStrings :
          LET lst == FileNameListOf(str, dir)
          IN  /\ Len(lst) # 0
              /\ ~ImageInfo(lst[1], dir).readable
              /\ globstring' = str
              /\ fileNameList' = lst
    /\ error' = "open"
    /\ pc' = "failed"
    /\ UNCHANGED <<dir, op, image, chunkShape, d, slicings, numSlicings,
                   activeRequests, activeSlicings, req, s, counter, result, progress,
                   submitted, writes, runs, info>>

NextGlob == GlobSetupOutputs \/ GlobSetupRaise

SpecGlob == InitGlob /\ [][NextGlob]_vars

(***************************************************************************)
(* OpH5WriterBigDataset when every fetch finishes without error and every  *)
(* write succeeds: the controlling thread keeps running, and every request *)
(* a worker has taken is finished in the end.                              *)
(***************************************************************************)
InitLive == Init /\ op = "big"

NextLive ==
    \/ BigSetupOutputs
    \/ BigExecuteBegin
    \/ BigPop
    \/ FetchComplete
    \/ BigWaitReturn
    \/ BigFinish

SpecLive ==
    /\ InitLive
    /\ [][NextLive]_vars
    /\ WF_vars(BigPop)
    /\ WF_vars(FetchComplete)
    /\ WF_vars(BigWaitReturn)
    /\ WF_vars(BigFinish)

(***************************************************************************)
(* Properties                                                              *)
(***************************************************************************)
\* the elements of an array of the given shape
Points(shape) ==
    LET RECURSIVE P(_)
        P(i) == IF i = 0 THEN {<<>>}
                ELSE {Append(p, x) : p \in P(i - 1), x \in 0..(shape[i] - 1)}
    IN  P(Len(shape))

\* the element lies in the region [start, stop) of the slicing
InRoi(p, roi) == \A i \in DOMAIN p : roi.start[i] <= p[i] /\ p[i] < roi.stop[i]

\* the tile list of the current source and chunk shape
AllSlicings == ComputeRequestSlicings(image.shape, image.axistags, chunkShape)

InBigRun == op = "big" /\ pc \in {"loop", "wait"}

\* fetches requested by this invocation and not yet popped from the queue
InFlight == Len(submitted) - Len(writes) - (IF pc = "wait" THEN 1 ELSE 0)

\* C1: in OpH5WriterBigDataset.execute the number of fetches submitted but not
\* yet popped from the active queue never exceeds min(10, N), whatever the
\* order in which the fetches complete.
C1_WindowBound ==
    InBigRun =>
        /\ InFlight <= Min(W, numSlicings)
        /\ Len(activeRequests) = InFlight

\* the window is full after a refill, with a younger fetch completed before the
\* oldest one
C1_Witness ==
    /\ InBigRun
    /\ numSlicings > W
    /\ counter >= 1
    /\ Len(activeRequests) = W
    /\ ~activeRequests[1].ready
    /\ activeRequests[W].ready

\* C2: the k-th write is the tile of the k-th submitted fetch, written at that
\* tile's position, for every completion order of the fetches.
C2_WritesInSubmissionOrder ==
    op = "big" =>
        /\ Len(writes) <= Len(submitted)
        /\ \A k \in DOMAIN writes :
              writes[k].src = submitted[k] /\ writes[k].dst = submitted[k]

\* two tiles written while a younger fetch had completed before the one waited for
C2_Witness ==
    /\ op = "big"
    /\ pc = "wait"
    /\ Len(writes) >= 2
    /\ ~req.ready
    /\ \E i \in DOMAIN activeRequests : activeRequests[i].ready

Occurrences(q, item) == Cardinality({k \in DOMAIN q : q[k] = item})

WrittenDst == [k \in DOMAIN writes |-> writes[k].dst]

\* C4: no tile is ever submitted more than once; when the run finishes, every
\* tile of the list has been submitted once and written once, and every element
\* of the dataset extent has been written by exactly one tile.
C4_ExactlyOnce ==
    op = "big" =>
        /\ \A k \in DOMAIN submitted : Occurrences(submitted, submitted[k]) = 1
        /\ pc = "done" =>
              /\ LET all == AllSlicings
                 IN  /\ \A k \in DOMAIN all :
                           /\ Occurrences(submitted, all[k]) = 1
                           /\ Occurrences(WrittenDst, all[k]) = 1
                     /\ Len(writes) = Len(all)
              /\ \A p \in Points(image.shape) :
                    Cardinality({k \in DOMAIN writes : InRoi(p, writes[k].dst)}) = 1

\* a finished run over more tiles than the window holds
C4_Witness ==
    /\ op = "big"
    /\ pc = "done"
    /\ numSlicings > W

\* C5: the tiles returned by computeRequestSlicings are pairwise disjoint and
\* their union is exactly the extent [0, Shape) on every axis: each tile lies
\* within the extent and each element lies in exactly one tile.
C5_TilesPartitionExtent ==
    pc = "planned" =>
        /\ \A k \in DOMAIN slicings : \A i \in DOMAIN image.shape :
              /\ 0 <= slicings[k].start[i]
              /\ slicings[k].start[i] < slicings[k].stop[i]
              /\ slicings[k].stop[i] <= image.shape[i]
        /\ \A p \in Points(image.shape) :
              Cardinality({k \in DOMAIN slicings : InRoi(p, slicings[k])}) = 1

\* a tiling split along two axes whose last tile is clipped by the extent
C5_Witness ==
    /\ pc = "planned"
    /\ Len(image.shape) >= 2
    /\ Len(slicings) >= 4
    /\ slicings[Len(slicings)].start[1] > 0
    /\ slicings[Len(slicings)].start[2] > 0
    /\ \E i \in 1..2 :
          slicings[Len(slicings)].stop[i] - slicings[Len(slicings)].start[i]
              < slicings[1].stop[i] - slicings[1].start[i]

\* C6 as claimed: the chunk shape computed by either writer satisfies
\* product(chunk extents) * dtypeBytes <= 300000.
C6_ChunkWithinBudget ==
    pc = "planned" => ChunkBytes(chunkShape, image.dtypeBytes) <= TargetBytes

\* C7: in a successful run of either writer the values emitted on progressSignal
\* start with 0 and end with 100, and every value emitted lies in [0, 100].
C7_ProgressFromZeroToHundred ==
    /\ \A k \in DOMAIN progress : progress[k] \in 0..100
    /\ pc = "done" =>
          /\ Len(progress) >= 2
          /\ progress[1] = 0
          /\ progress[Len(progress)] = 100

\* a finished run of the throttled writer over more tiles than the window holds
C7_Witness ==
    /\ op = "big"
    /\ pc = "done"
    /\ numSlicings > W
    /\ Len(progress) = numSlicings + 2

\* C8 as claimed: the value emitted right after the k-th tile has been written is
\* floor(100 * k / N); progress[1] is the 0 emitted before the loop.
C8_ProgressCountsWrittenTile ==
    op = "big" =>
        \A k \in DOMAIN writes : progress[k + 1] = (100 * k) \div numSlicings

\* the tiles written by the current invocation
WrittenThisRun == {writes[k].dst : k \in DOMAIN writes}

C10_FailureAborts ==
    op = "big" /\ error \in {"read", "write"} =>
        /\ pc = "failed"
        /\ result = FALSE
        /\ \A k \in DOMAIN progress : progress[k] # 100
        /\ Len(writes) = counter
        /\ \A k \in DOMAIN writes : writes[k].dst = submitted[k]
        /\ \A k \in DOMAIN submitted : k > counter => submitted[k] \notin WrittenThisRun
        /\ Len(submitted) = Min(numSlicings, counter + W)
        /\ d.uses >= 1 => WrittenThisRun \subseteq d.written
        /\ d.uses = 1 => ~d.axistags /\ d.written = WrittenThisRun

\* the fetch of the third tile fails while fetches of later tiles are outstanding
C10_Witness ==
    /\ op = "big"
    /\ pc = "failed"
    /\ error = "read"
    /\ counter = 2
    /\ Len(submitted) = 12
    /\ d.uses = 1

\* the file of the slice the copy loop is at differs in shape from the first file
AtMismatch ==
    /\ op = "stack"
    /\ pc = "copy"
    /\ counter < numSlicings
    /\ fileNameList[counter + 1].shape # info.shape

\* C11: in a bridge run, when the file at stack index z differs in shape from
\* the reference shape, the run fails with the shape-mismatch error and success
\* is not reported; the slices written are the slices 0..z-1 and nothing is
\* written for slice z or any later slice.
C11_ShapeMismatchAborts ==
    /\ [](op = "stack" /\ pc = "copy" =>
            /\ Len(writes) = counter
            /\ d.written = WrittenThisRun
            /\ \A k \in DOMAIN writes :
                  /\ writes[k].dst = SliceRoi(image, k - 1)
                  /\ fileNameList[k].shape = info.shape)
    /\ [][AtMismatch =>
            /\ pc' = "failed"
            /\ error' = "read"
            /\ result' = FALSE
            /\ d' = d
            /\ writes' = writes
            /\ \A k \in DOMAIN progress' : progress'[k] # 100]_vars
    /\ [][op = "stack" /\ pc = "failed" /\ runs' = runs =>
            d' = d /\ writes' = writes /\ result' = FALSE]_vars

\* the run has failed at the third file of three, two slices written
C11_Witness ==
    /\ op = "stack"
    /\ pc = "failed"
    /\ error = "read"
    /\ counter = 2
    /\ Len(fileNameList) = 3
    /\ fileNameList[3].shape # info.shape
    /\ d.written = {SliceRoi(image, 0), SliceRoi(image, 1)}

\* C12 as claimed: when a bridge run reports success, the dataset it created
\* carries the axistags of the source as an attribute.
C12_BridgePersistsAxistags ==
    op = "stack" /\ pc = "done" /\ result = TRUE => d.axistags

\* the permutations of 1..n
Perms(n) == {f \in [1..n -> 1..n] : \A i, j \in 1..n : f[i] = f[j] => i = j}

\* the names of the directory a pattern matches
MatchesOf(pat) == {f.name : f \in {g \in dir : FnMatch(g.name, pat)}}

\* the one strictly increasing list of the names a pattern matches
SortedMatches(pat) ==
    LET names == MatchesOf(pat)
    IN  CHOOSE lst \in [1..Cardinality(names) -> names] :
            \A i \in 1..(Cardinality(names) - 1) : StrLess(lst[i], lst[i + 1])

RECURSIVE Concat(_)
Concat(groups) ==
    IF groups = <<>> THEN <<>> ELSE Head(groups) \o Concat(Tail(groups))

\* fileNameList is the concatenation, over the patterns of the current
\* globstring in lexicographic order of their text, of each pattern's matches
\* in lexicographic order
FileListAsConfigured ==
    LET pats == Split(globstring)
        n    == Len(pats)
    IN  \E f \in Perms(n) :
          /\ \A k \in 1..(n - 1) : ~StrLess(pats[f[k + 1]], pats[f[k]])
          /\ fileNameList = Concat([k \in 1..n |-> SortedMatches(pats[f[k]])])

\* the stack meta agrees with fileNameList: no meta for the empty list, else
\* the extent of the z axis is the number of files
MetaAsConfigured ==
    IF fileNameList = <<>>
    THEN image = NoMeta
    ELSE /\ image # NoMeta
         /\ image.shape[AxisIndex(image.axistags, "z") + 1] = Len(fileNameList)

C14_WindowExactAndAligned ==
    /\ op = "big" /\ pc = "loop" =>
          Len(activeRequests) = Min(W, numSlicings - Len(writes))
    /\ InBigRun =>
          /\ Len(activeRequests) = Len(activeSlicings)
          /\ \A i \in DOMAIN activeRequests : activeRequests[i].roi = activeSlicings[i]

\* the loop condition is evaluated with more than W tiles in all, fewer than W
\* of them left and the queues still holding two or more
C14_Witness ==
    /\ op = "big"
    /\ pc = "loop"
    /\ numSlicings > W
    /\ Len(writes) > numSlicings - W
    /\ Len(activeRequests) >= 2
    /\ Len(activeRequests) = numSlicings - Len(writes)

\* the oldest active request of the run has not finished: the one being waited
\* for, or the head of the queue when the loop condition is evaluated
OldestPending ==
    /\ InBigRun
    /\ \/ pc = "wait" /\ ~req.ready
       \/ pc = "loop" /\ Len(activeRequests) > 0 /\ ~activeRequests[1].ready

\* C16: in OpH5WriterBigDataset.execute, while the oldest active fetch has not
\* completed, no step writes a tile, submits a fetch or emits progress, whatever
\* the state of the other active fetches, and no step takes the run to the done
\* or the failed state: a run whose oldest fetch never completes never ends.
C16_OldestFetchBlocksRun ==
    [][OldestPending =>
          /\ writes' = writes
          /\ d' = d
          /\ submitted' = submitted
          /\ progress' = progress
          /\ counter' = counter
          /\ pc' \in {"loop", "wait"}]_vars

\* the run waits for its oldest request while every request behind it, nine
\* of them, has finished
C16_Witness ==
    /\ op = "big"
    /\ pc = "wait"
    /\ ~req.ready
    /\ Len(activeRequests) = W - 1
    /\ \A i \in DOMAIN activeRequests : activeRequests[i].ready

\* the run has ended in the done state with every tile written, the axistags
\* stored, success reported and 100 the last progress value
RunComplete ==
    /\ op = "big"
    /\ pc = "done"
    /\ Len(writes) = numSlicings
    /\ LET all == AllSlicings
       IN  {writes[k].dst : k \in DOMAIN writes} = {all[k] : k \in DOMAIN all}
    /\ d.axistags
    /\ result = TRUE
    /\ progress[Len(progress)] = 100

\* C15: when every submitted fetch completes without error and every write
\* succeeds, a run of OpH5WriterBigDataset.execute ends in the done state with
\* all N tiles written, the axistags stored, success True and progress 100
\* emitted; in no state of a run is the run unable to take a step.
C15_RunTerminates ==
    /\ [](InBigRun => ENABLED (BigPop \/ FetchComplete \/ BigWaitReturn \/ BigFinish))
    /\ InBigRun ~> RunComplete

\* a finished run of more tiles than the window holds
C15_Witness ==
    /\ RunComplete
    /\ numSlicings > W
    /\ d.written = {writes[k].dst : k \in DOMAIN writes}

\* C17 as claimed: for a source with no channel axis the chunk-shape
\* computation of either writer takes numChannels = 1 and completes without
\* error, with a chunk shape of one extent per axis of the source.
C17_NoChannelAxisMeansOneChannel ==
    ~HasChannel(image) /\ pc # "new" =>
        /\ pc = "planned"
        /\ error = "none"
        /\ Len(chunkShape) = Len(image.shape)
        /\ chunkShape = ComputeChunkShape(image.shape, image.axistags, 1,
                                          image.dtypeBytes)

\* the shape of the requests computeRequestSlicings cuts the image into
RequestShape == Shift(image.shape, image.axistags, chunkShape)

C19_ConfigurationKeepsDataset ==
    op = "big" /\ pc = "done" =>
        /\ d.exists
        /\ d.axistags
        /\ WrittenThisRun \subseteq d.written

\* C20 as claimed: every extent of the chunk shape either writer computes is
\* at least 1, also when numChannels * dtypeBytes exceeds 300000.
C20_ChunkExtentsPositive ==
    pc = "planned" => \A i \in DOMAIN chunkShape : chunkShape[i] >= 1

====
